---- MODULE Spec2Model ----
(***************************************************************************)
(* Turn-based combat engine of Defeat_Evil_Wizard: Character (base.py),    *)
(* the four player classes (characters.py), EvilWizard (enemy.py) and the  *)
(* round loop battle() (battle.py).                                        *)
(*                                                                         *)
(* Probabilities (evasion_chance, evade_boost, slowed) are Python floats   *)
(* that are all multiples of 0.001; they are kept in thousandths, so 0.25  *)
(* is 250 and 1.0 is 1000.  A sample of random.random() is an integer in   *)
(* 0..999 (thousandths of [0, 1)).                                         *)
(***************************************************************************)
EXTENDS Integers, Sequences, FiniteSets, TLC

VARIABLES player, enemy, pc, rounds, calls, last, defeated

vars == <<player, enemy, pc, rounds, calls, last, defeated>>

----------------------------------------------------------------------------
(* Bounds of the model *)

\* battle(): rounds of the while loop that are entered
MaxRounds == 2

\* direct method calls made on the two objects by a test-style client
MaxCalls == 2

----------------------------------------------------------------------------
(* Helpers *)

Max(a, b) == IF a >= b THEN a ELSE b

Min(a, b) == IF a <= b THEN a ELSE b

\* cached_attack_roll = None
None == -1

\* random.randint(base, base + 5) - base
RollOffsets == 0 .. 5

\* representative samples of random.random(), in thousandths
Samples == {0, 999}

\* random.randint(3, 5) of multi_shot
HitCounts == 3 .. 5

Slots == {"weakened", "vulnerable", "slowed", "shielded", "empowered", "evade_boost"}

PlayerClasses == {"Warrior", "Mage", "Archer", "Assassin"}

----------------------------------------------------------------------------
(* Ability tables, in declaration (insertion) order *)

Abilities(cls) ==
    CASE cls = "Warrior"    -> <<"shield_bash">>
      [] cls = "Mage"       -> <<"arcane_surge", "random_spell">>
      [] cls = "Archer"     -> <<"multi_shot", "headshot">>
      [] cls = "Assassin"   -> <<"shadow_step", "smoke_bomb">>
      [] cls = "EvilWizard" -> <<"shadow_veil", "dark_bolt", "drain_life", "curse">>
      [] OTHER              -> << >>

AbilityNames(cls) == {Abilities(cls)[i] : i \in 1 .. Len(Abilities(cls))}

\* abilities[name]["cooldown"]
CooldownOf(name) ==
    CASE name = "shield_bash"  -> 3
      [] name = "arcane_surge" -> 4
      [] name = "random_spell" -> 5
      [] name = "multi_shot"   -> 3
      [] name = "headshot"     -> 4
      [] name = "shadow_step"  -> 3
      [] name = "smoke_bomb"   -> 4
      [] name = "shadow_veil"  -> 5
      [] name = "dark_bolt"    -> 3
      [] name = "drain_life"   -> 3
      [] name = "curse"        -> 5

----------------------------------------------------------------------------
(* Construction *)

\* Character.__init__
Character(cls, health, attack_power, defense, evasion_chance) ==
    [ cls                |-> cls,
      health             |-> health,
      attack_power       |-> attack_power,
      cached_attack_roll |-> None,
      defense            |-> defense,
      evasion_chance     |-> evasion_chance,
      max_health         |-> health,
      status_effects     |-> [ stunned     |-> 0,
                               weakened    |-> <<0, 0>>,
                               vulnerable  |-> <<0, 0>>,
                               slowed      |-> <<0, 0>>,
                               shielded    |-> <<0, 0>>,
                               empowered   |-> <<0, 0>>,
                               evade_boost |-> <<0, 0>> ],
      cooldowns          |-> [n \in AbilityNames(cls) |-> 0],
      raging             |-> FALSE ]

Warrior == Character("Warrior", 140, 25, 15, 50)

Mage == Character("Mage", 120, 30, 3, 100)

Archer == Character("Archer", 120, 35, 7, 150)

Assassin == Character("Assassin", 100, 40, 2, 250)

EvilWizard == Character("EvilWizard", 150, 15, 5, 250)

\* the tests' DummyPlayer: no abilities, evasion 0.0
DummyPlayer == Character("Dummy", 100, 20, 5, 0)

\* utils.create_character
create_character(choice) ==
    CASE choice = "Warrior"  -> Warrior
      [] choice = "Mage"     -> Mage
      [] choice = "Archer"   -> Archer
      [] choice = "Assassin" -> Assassin

----------------------------------------------------------------------------
(* Effective stats *)

\* the roll get_effective_attack works with: the cached one, else a fresh one
AttackRoll(c, roll) ==
    IF c.cached_attack_roll = None THEN c.attack_power + roll
    ELSE c.cached_attack_roll

get_effective_attack(c, roll) ==
    LET atk0 == AttackRoll(c, roll)
        atk1 == IF c.status_effects.empowered[2] > 0
                THEN atk0 + c.status_effects.empowered[1] ELSE atk0
        atk2 == IF c.status_effects.weakened[2] > 0
                THEN atk1 - c.status_effects.weakened[1] ELSE atk1
    IN  Max(1, atk2)

get_effective_defense(c) ==
    LET d0 == c.defense
        d1 == IF c.status_effects.shielded[2] > 0
              THEN d0 + c.status_effects.shielded[1] ELSE d0
        d2 == IF c.status_effects.vulnerable[2] > 0
              THEN d1 - c.status_effects.vulnerable[1] ELSE d1
    IN  Max(0, d2)

\* mutant: the magnitudes are read whatever the turns remaining are
get_effective_evasion_stale(c) ==
    Max(0, Min(1000, c.evasion_chance + c.status_effects.evade_boost[1]
                        - c.status_effects.slowed[1]))

get_effective_evasion(c) ==
    LET e0 == c.evasion_chance
        e1 == IF c.status_effects.evade_boost[2] > 0
              THEN e0 + c.status_effects.evade_boost[1] ELSE e0
        e2 == IF c.status_effects.slowed[2] > 0
              THEN e1 - c.status_effects.slowed[1] ELSE e1
    IN  Max(0, Min(1000, e2))

\* random.random() < evade_chance, for the sample u
try_evade(c, u) == u < get_effective_evasion(c)

----------------------------------------------------------------------------
(* Results of a method call: the two objects afterwards, and whether the   *)
(* call ended by raising an exception.                                     *)

Res(s, t, r) == [self |-> s, target |-> t, raised |-> r]

SetSlot(c, slot, value) ==
    [c EXCEPT !.status_effects = [c.status_effects EXCEPT ![slot] = value]]

\* Character and its subclasses define no apply_status: the attribute lookup
\* self.apply_status raises AttributeError before anything is written.
apply_status(c, slot, value, duration) == [ok |-> FALSE, self |-> c]

----------------------------------------------------------------------------
(* Character: attack, cooldown gating, heal, update *)

ClearRoll(c) == [c EXCEPT !.cached_attack_roll = None]

\* mutant: a landed attack whose damage is floored at 0 instead of 1
attack_nofloor(self, opponent, u, roll) ==
    IF try_evade(opponent, u)
    THEN Res(ClearRoll(self), opponent, FALSE)
    ELSE LET damage == Max(0, get_effective_attack(self, roll)
                              - get_effective_defense(opponent))
         IN  Res(ClearRoll(self),
                 [opponent EXCEPT !.health = opponent.health - damage],
                 FALSE)

\* Character.attack(opponent); u is the sample of the evasion check, roll the
\* offset of the attack roll drawn if none is cached
attack(self, opponent, u, roll) ==
    IF try_evade(opponent, u)
    THEN Res(ClearRoll(self), opponent, FALSE)
    ELSE LET damage == Max(1, get_effective_attack(self, roll)
                              - get_effective_defense(opponent))
         IN  Res(ClearRoll(self),
                 [opponent EXCEPT !.health = opponent.health - damage],
                 FALSE)

\* mutant: every ability counts as ready
is_ability_ready_always(c, ability) == TRUE

\* cooldowns.get(ability, 0) == 0
is_ability_ready(c, ability) ==
    IF ability \in DOMAIN c.cooldowns THEN c.cooldowns[ability] = 0 ELSE TRUE

\* mutant: the cooldown set is one short of the configured one
use_ability_short(c, ability_name) ==
    IF is_ability_ready(c, ability_name)
    THEN [ok |-> TRUE,
          self |-> [c EXCEPT !.cooldowns[ability_name] = CooldownOf(ability_name) - 1]]
    ELSE [ok |-> FALSE, self |-> c]

\* mutant: the cooldown is set and True returned whatever the cooldown was
use_ability_always(c, ability_name) ==
    [ok |-> TRUE, self |-> [c EXCEPT !.cooldowns[ability_name] = CooldownOf(ability_name)]]

\* Character.use_ability(ability_name), for a name of the ability table
use_ability(c, ability_name) ==
    LET cd == CooldownOf(ability_name)
    IN  IF is_ability_ready(c, ability_name)
        THEN [ok |-> TRUE, self |-> [c EXCEPT !.cooldowns[ability_name] = cd]]
        ELSE [ok |-> FALSE, self |-> c]

\* mutant: heal adds its amount whatever the health is
heal_unclamped(c) == [c EXCEPT !.health = c.health + 10]

\* Character.heal
heal(c) ==
    LET amount == 10
    IN  IF c.health < c.max_health
        THEN [c EXCEPT !.health = Min(c.max_health, c.health + amount)]
        ELSE c

\* mutant: the status loop decrements without looking at the duration
TickPair_unguarded(v) == <<v[1], v[2] - 1>>

\* the status loop of Character.update: a (value, duration) pair
TickPair(v) == IF v[2] > 0 THEN <<v[1], v[2] - 1>> ELSE v

\* mutant: the integer slot is never decremented
TickInt_keep(v) == IF v <= 0 THEN 0 ELSE v

\* the status loop of Character.update: the integer slot
TickInt(v) ==
    LET w == IF v > 0 THEN v - 1 ELSE v
    IN  IF w <= 0 THEN 0 ELSE w

\* mutant: the cooldown loop decrements without looking at the value
TickCooldown_unfloored(v) == v - 1

\* the cooldown loop of Character.update
TickCooldown(v) == IF v > 0 THEN v - 1 ELSE v

\* mutant: Character.update without its cooldown loop
base_update_nocooldowns(c) ==
    [c EXCEPT
       !.status_effects =
          [k \in DOMAIN c.status_effects |->
              IF k = "stunned" THEN TickInt(c.status_effects[k])
              ELSE TickPair(c.status_effects[k])]]

\* Character.update
base_update(c) ==
    [c EXCEPT
       !.status_effects =
          [k \in DOMAIN c.status_effects |->
              IF k = "stunned" THEN TickInt(c.status_effects[k])
              ELSE TickPair(c.status_effects[k])],
       !.cooldowns = [k \in DOMAIN c.cooldowns |-> TickCooldown(c.cooldowns[k])]]

----------------------------------------------------------------------------
(* Warrior *)

shield_bash(self, opponent, u) ==
    IF try_evade(opponent, u) THEN Res(self, opponent, FALSE)
    ELSE Res(self, [opponent EXCEPT !.status_effects.stunned = 1], FALSE)

\* health / max_health < 0.3
BelowRage(c) == 10 * c.health < 3 * c.max_health

\* Warrior.berserker_rage; the result is [self, raised]
berserker_rage(c) ==
    IF ~c.raging /\ BelowRage(c)
    THEN LET a == apply_status(c, "empowered", 10, -1)
         IN  IF ~a.ok THEN [self |-> a.self, raised |-> TRUE]
             ELSE LET b == apply_status(a.self, "shielded", 5, -1)
                  IN  IF ~b.ok THEN [self |-> b.self, raised |-> TRUE]
                      ELSE [self |-> [b.self EXCEPT !.raging = TRUE], raised |-> FALSE]
    ELSE IF c.raging /\ ~BelowRage(c)
    THEN LET a == apply_status(c, "empowered", 0, 0)
         IN  IF ~a.ok THEN [self |-> a.self, raised |-> TRUE]
             ELSE LET b == apply_status(a.self, "shielded", 0, 0)
                  IN  IF ~b.ok THEN [self |-> b.self, raised |-> TRUE]
                      ELSE [self |-> [b.self EXCEPT !.raging = FALSE], raised |-> FALSE]
    ELSE [self |-> c, raised |-> FALSE]

----------------------------------------------------------------------------
(* Mage *)

\* mutant: the surge lands whatever the evasion check says
arcane_surge_unavoidable(self, opponent, u) ==
    Res(self, [opponent EXCEPT !.health = opponent.health - 50], FALSE)

arcane_surge(self, opponent, u) ==
    IF try_evade(opponent, u) THEN Res(self, opponent, FALSE)
    ELSE Res(self, [opponent EXCEPT !.health = opponent.health - 50], FALSE)

Spells == {"Teleport", "Ice Shard", "Boost Attack", "Boost Defense"}

\* Mage.random_spell; spell is the outcome of random.choice(spells)
random_spell(self, opponent, spell, u) ==
    CASE spell = "Teleport" ->
           LET a == apply_status(self, "evade_boost", 1000, 3)
           IN  Res(a.self, opponent, ~a.ok)
      [] spell = "Ice Shard" ->
           IF try_evade(opponent, u) THEN Res(self, opponent, FALSE)
           ELSE Res(self,
                    [SetSlot(opponent, "slowed", <<opponent.evasion_chance \div 2, 4>>)
                       EXCEPT !.health = opponent.health - 20],
                    FALSE)
      [] spell = "Boost Attack" ->
           LET a == apply_status(self, "empowered", 7, 2)
           IN  Res(a.self, opponent, ~a.ok)
      [] spell = "Boost Defense" ->
           LET a == apply_status(self, "shielded", 5, 2)
           IN  Res(a.self, opponent, ~a.ok)

----------------------------------------------------------------------------
(* Archer *)

\* mutant: one evasion check decides all the sub-hits
Landed_one_check(opponent, hits, us) ==
    IF try_evade(opponent, us[1]) THEN 0 ELSE hits

\* sub-hits of multi_shot that are not evaded, among the first `hits` samples
Landed(opponent, hits, us) ==
    Cardinality({i \in 1 .. hits : ~try_evade(opponent, us[i])})

\* Archer.multi_shot; hits is the outcome of random.randint(3, 5), us the
\* samples of the evasion checks
multi_shot(self, opponent, hits, us) ==
    LET damage_per_hit == self.attack_power \div 3
        landed         == Landed(opponent, hits, us)
    IN  Res(self,
            [opponent EXCEPT !.health = opponent.health - landed * damage_per_hit],
            FALSE)

headshot(self, opponent) ==
    LET a == apply_status(self, "empowered", self.attack_power, 2)
    IN  Res(a.self, opponent, ~a.ok)

----------------------------------------------------------------------------
(* Assassin *)

\* attack_power * 0.5 is a whole number for the Assassin's attack_power of 40
shadow_step(self, opponent) ==
    LET a == apply_status(self, "empowered", self.attack_power \div 2, 2)
    IN  IF ~a.ok THEN Res(a.self, opponent, TRUE)
        ELSE Res(a.self, SetSlot(opponent, "evade_boost", <<0, 2>>), FALSE)

smoke_bomb(self, opponent) ==
    LET a == apply_status(self, "evade_boost", 750, 3)
    IN  Res(a.self, opponent, ~a.ok)

----------------------------------------------------------------------------
(* EvilWizard *)

dark_bolt(self, target, u) ==
    IF try_evade(target, u) THEN Res(self, target, FALSE)
    ELSE LET damage == self.attack_power + 10
         IN  Res(self, [target EXCEPT !.health = target.health - damage], FALSE)

\* mutant: the wizard's share of drain_life is added without the cap
drain_life_uncapped(self, target, u) ==
    IF try_evade(target, u) THEN Res(self, target, FALSE)
    ELSE Res([self EXCEPT !.health = self.health + 10],
             [target EXCEPT !.health = target.health - 20],
             FALSE)

drain_life(self, target, u) ==
    IF try_evade(target, u) THEN Res(self, target, FALSE)
    ELSE LET damage == 20
             hl     == damage \div 2
         IN  Res([self EXCEPT !.health = Min(self.max_health, self.health + hl)],
                 [target EXCEPT !.health = target.health - damage],
                 FALSE)

\* mutant: the curse as a flat reduction of the target's attack_power
curse_flat(self, target, u) ==
    IF try_evade(target, u) THEN Res(self, target, FALSE)
    ELSE Res(self, [target EXCEPT !.attack_power = Max(0, target.attack_power - 5)], FALSE)

curse(self, target, u) ==
    IF try_evade(target, u) THEN Res(self, target, FALSE)
    ELSE LET reduction == 10
         IN  Res(self, SetSlot(target, "weakened", <<reduction, 4>>), FALSE)

shadow_veil(self, target) ==
    LET boost    == 500
        duration == 3
    IN  Res(SetSlot(self, "evade_boost", <<boost, duration>>), target, FALSE)

regenerate(c) ==
    IF c.health <= 0 THEN c
    ELSE LET hl == 5
         IN  [c EXCEPT !.health = Min(c.max_health, c.health + hl)]

----------------------------------------------------------------------------
(* Dispatch *)

\* the random outcomes one call may consume
Rnd(u, roll, spell, hits, us) ==
    [u |-> u, roll |-> roll, spell |-> spell, hits |-> hits, us |-> us]

NoSamples == [i \in 1 .. 5 |-> 0]

\* the random outcomes that matter to an ability: the others are fixed
RndFor(ability) ==
    CASE ability \in {"shield_bash", "arcane_surge", "dark_bolt", "drain_life", "curse"} ->
           {Rnd(u, 0, "Teleport", 3, NoSamples) : u \in Samples}
      [] ability = "random_spell" ->
           {Rnd(u, 0, sp, 3, NoSamples) : u \in Samples, sp \in Spells}
      [] ability = "multi_shot" ->
           {Rnd(0, 0, "Teleport", h, us) : h \in HitCounts, us \in [1 .. 5 -> Samples]}
      [] OTHER -> {Rnd(0, 0, "Teleport", 3, NoSamples)}

\* getattr(self, ability)(target)
Invoke(self, ability, target, r) ==
    CASE ability = "shield_bash"  -> shield_bash(self, target, r.u)
      [] ability = "arcane_surge" -> arcane_surge(self, target, r.u)
      [] ability = "random_spell" -> random_spell(self, target, r.spell, r.u)
      [] ability = "multi_shot"   -> multi_shot(self, target, r.hits, r.us)
      [] ability = "headshot"     -> headshot(self, target)
      [] ability = "shadow_step"  -> shadow_step(self, target)
      [] ability = "smoke_bomb"   -> smoke_bomb(self, target)
      [] ability = "shadow_veil"  -> shadow_veil(self, target)
      [] ability = "dark_bolt"    -> dark_bolt(self, target, r.u)
      [] ability = "drain_life"   -> drain_life(self, target, r.u)
      [] ability = "curse"        -> curse(self, target, r.u)

\* 0 <= index < len(abilities)
ValidIndex(c, index) == 0 <= index /\ index < Len(Abilities(c.cls))

\* list(self.abilities.keys())[index]
AbilityAt(c, index) == Abilities(c.cls)[index + 1]

\* Character.special(index, target), index 0-based
special(self, index, target, r) ==
    IF ~ValidIndex(self, index) THEN Res(self, target, FALSE)
    ELSE LET ability == AbilityAt(self, index)
             used    == use_ability(self, ability)
         IN  IF ~used.ok THEN Res(self, target, FALSE)
             ELSE Invoke(used.self, ability, target, r)

\* update() of the class: Character.update, then the passive hook
update(c) ==
    LET b == base_update(c)
    IN  CASE c.cls = "Warrior"    -> berserker_rage(b)
          [] c.cls = "EvilWizard" -> [self |-> regenerate(b), raised |-> FALSE]
          [] OTHER                -> [self |-> b, raised |-> FALSE]

\* Character.display_stats: the only state it writes is the cached roll
display_stats(c, roll) ==
    IF c.cached_attack_roll = None
    THEN [c EXCEPT !.cached_attack_roll = c.attack_power + roll]
    ELSE c

----------------------------------------------------------------------------
(* State *)
(*   player, enemy : the two Character objects                             *)
(*   pc            : position in battle(), or "unit" for a client that     *)
(*                   calls the methods directly (as the unit tests do)     *)
(*   rounds        : iterations of battle()'s loop entered so far          *)
(*   calls         : direct calls made so far (pc = "unit")                *)
(*   last          : the operation the latest step resolved (history)      *)
(*   defeated      : who battle() reported as defeated after its loop      *)

Actors == {"player", "enemy"}

Other(who) == IF who = "player" THEN "enemy" ELSE "player"

Obj(who) == IF who = "player" THEN player ELSE enemy

\* the record of the latest operation: who made it, which one, the ability
\* and index it named, whether the target evaded it, whether it raised, the
\* attack roll a landed attack used, what use_ability / the gate of special
\* returned, the number an effective-stat call returned, the sub-hits a
\* multi_shot attempted and the samples of their evasion checks
Op(actor, op) ==
    [actor |-> actor, op |-> op, ability |-> "", index |-> 0,
     evaded |-> FALSE, raised |-> FALSE, roll |-> 0, ok |-> FALSE, value |-> 0,
     hits |-> 0, us |-> <<>>]

NoOp == Op("none", "none")

\* the ability consults try_evade once, with the sample r.u
Evadable(ability, r) ==
    \/ ability \in {"shield_bash", "arcane_surge", "dark_bolt", "drain_life", "curse"}
    \/ ability = "random_spell" /\ r.spell = "Ice Shard"

\* the objects after a call made by `who` on the other one
Store(who, res) ==
    /\ player' = IF who = "player" THEN res.self ELSE res.target
    /\ enemy'  = IF who = "player" THEN res.target ELSE res.self

\* the objects after a call by `who` that touches `who` alone
StoreSelf(who, c) ==
    /\ player' = IF who = "player" THEN c ELSE player
    /\ enemy'  = IF who = "enemy" THEN c ELSE enemy

\* the record of an attack by `who` with the sample u and the roll offset
AttackOp(who, u, roll) ==
    [Op(who, "attack") EXCEPT
       !.evaded = try_evade(Obj(Other(who)), u),
       !.roll   = IF try_evade(Obj(Other(who)), u) THEN 0
                  ELSE AttackRoll(Obj(who), roll)]

\* the record of an ability behaviour run by `who`
AbilityOp(who, op, ability, index, r, res) ==
    [Op(who, op) EXCEPT
       !.ability = ability,
       !.index   = index,
       !.evaded  = Evadable(ability, r) /\ try_evade(Obj(Other(who)), r.u),
       !.raised  = res.raised,
       !.ok      = TRUE]

TurnOf(who) == IF who = "player" THEN "player_turn" ELSE "enemy_turn"

UpdateOf(who) == IF who = "player" THEN "player_update" ELSE "enemy_update"

\* mutant: the stun check never finds a stun
IsStunned_never(c) == FALSE

\* status_effects.get("stunned", 0) > 0
IsStunned(c) == c.status_effects.stunned > 0

\* mutant: the loop goes on as long as the player stands
Fighting_player_only == player.health > 0

\* the condition of battle()'s while loop
Fighting == player.health > 0 /\ enemy.health > 0

\* Health values of a worn-down player and a worn-down wizard.  Each is
\* reached at the head of battle()'s loop after rounds of plain attacks only
\* (the wizard attacks with probability 0.4 even when a special is ready, and
\* every attack may be evaded), so all cooldowns and status slots are still
\* as constructed:
\*   player at 5 / 40: Warrior 27 / 20 hits of 5; Mage 5 x 17 + 2 x 15 / 5 x 16;
\*     Archer 5 x 13 + 5 x 10 / 8 x 10; Assassin 5 x 13 + 2 x 15 / 4 x 15;
\*   wizard at 10 / 30 (a hit of d and the +5 of regenerate per round):
\*     Warrior 7 x (25 - 5) / 6 x (25 - 5); Mage 7 x (25 - 5) / 6 x (25 - 5);
\*     Archer 5 x (33 - 5) / 4 x (35 - 5); Assassin 4 x (40 - 5) / 4 x (35 - 5).
WornPlayer == {5, 40}

WornEnemy == {10, 30}

\* The wizard four rounds into a battle in which it cast shadow_veil, curse,
\* drain_life and dark_bolt in that order, every one of them evaded, while
\* the player healed at full health.
AfterFourCasts ==
    [EvilWizard EXCEPT
       !.cooldowns = [n \in AbilityNames("EvilWizard") |->
                        IF n \in {"shadow_veil", "drain_life"} THEN 1 ELSE 2],
       !.status_effects.evade_boost = <<500, 0>>]

\* main(): a fresh player and a fresh wizard enter battle(); the other
\* openings are states battle() reaches at the head of its loop, from which
\* the late rounds of a battle are explored
Openings(choice) ==
    {<<create_character(choice), EvilWizard>>, <<create_character(choice), AfterFourCasts>>}
    \cup {<<[create_character(choice) EXCEPT !.health = hp],
             [EvilWizard EXCEPT !.health = he]>> : hp \in WornPlayer, he \in WornEnemy}

Init ==
    /\ \E choice \in PlayerClasses : \E o \in Openings(choice) :
          /\ player = o[1]
          /\ enemy = o[2]
    /\ pc = "loop"
    /\ rounds = 0
    /\ calls = 0
    /\ last = NoOp
    /\ defeated = "none"

----------------------------------------------------------------------------
(* battle() *)
(* The stats screens of get_player_action (display_stats) write nothing    *)
(* but cached_attack_roll and return to the menu; they are part of the     *)
(* direct-call client below (CallDisplayStats), not of the round loop.     *)

\* while player.health > 0 and enemy.health > 0: enter the next round
LoopEnter ==
    /\ pc = "loop"
    /\ Fighting
    /\ rounds < MaxRounds
    /\ pc' = "player_turn"
    /\ rounds' = rounds + 1
    /\ UNCHANGED <<player, enemy, calls, last, defeated>>

\* the loop condition fails: report the defeated combatant
LoopExit ==
    /\ pc = "loop"
    /\ ~Fighting
    /\ pc' = "over"
    /\ defeated' = IF player.health <= 0 THEN "player"
                   ELSE IF enemy.health <= 0 THEN "enemy" ELSE "none"
    /\ UNCHANGED <<player, enemy, rounds, calls, last>>

\* the actor is stunned: no action, straight to its update()
StunnedSkip(who) ==
    /\ pc = TurnOf(who)
    /\ Obj(who).health > 0
    /\ IsStunned(Obj(who))
    /\ pc' = UpdateOf(who)
    /\ last' = Op(who, "stunned")
    /\ UNCHANGED <<player, enemy, rounds, calls, defeated>>

\* handle_player_turn: "attack"
PlayerAttack ==
    /\ pc = "player_turn"
    /\ ~IsStunned(player)
    /\ \E u \in Samples, roll \in RollOffsets :
          /\ Store("player", attack(player, enemy, u, roll))
          /\ last' = AttackOp("player", u, roll)
    /\ pc' = "player_update"
    /\ UNCHANGED <<rounds, calls, defeated>>

\* the ability numbers a caller may give, as 0-based indices
IndexChoices == -1 .. 4

\* handle_player_turn: "special" with an index that is refused (out of range,
\* or on cooldown): the prompt is shown again
PlayerSpecialRefused(index) ==
    /\ pc = "player_turn"
    /\ ~IsStunned(player)
    /\ \/ ~ValidIndex(player, index)
       \/ ValidIndex(player, index) /\ ~is_ability_ready(player, AbilityAt(player, index))
    /\ last' = [Op("player", "refused") EXCEPT !.index = index]
    /\ UNCHANGED <<player, enemy, pc, rounds, calls, defeated>>

\* handle_player_turn: "special" with a ready ability: player.special(index,
\* enemy); an exception leaves the try block of battle() before player.update()
PlayerSpecial(index) ==
    /\ pc = "player_turn"
    /\ ~IsStunned(player)
    /\ ValidIndex(player, index)
    /\ is_ability_ready(player, AbilityAt(player, index))
    /\ \E r \in RndFor(AbilityAt(player, index)) :
          LET res == special(player, index, enemy, r)
          IN  /\ Store("player", res)
              /\ last' = AbilityOp("player", "special", AbilityAt(player, index),
                                   index, r, res)
              /\ pc' = IF res.raised THEN "enemy_turn" ELSE "player_update"
    /\ UNCHANGED <<rounds, calls, defeated>>

\* handle_player_turn: "heal"
PlayerHeal ==
    /\ pc = "player_turn"
    /\ ~IsStunned(player)
    /\ player' = heal(player)
    /\ pc' = "player_update"
    /\ last' = Op("player", "heal")
    /\ UNCHANGED <<enemy, rounds, calls, defeated>>

\* mutant: "quit" treated as an action that was taken (return True)
AfterQuit_continue == "player_update"

\* where battle() goes when handle_player_turn returns False: it returns
AfterQuit == "quit"

\* handle_player_turn: "quit"
PlayerQuit ==
    /\ pc = "player_turn"
    /\ ~IsStunned(player)
    /\ pc' = AfterQuit
    /\ last' = Op("player", "quit")
    /\ UNCHANGED <<player, enemy, rounds, calls, defeated>>

\* where battle() goes after the update() of an actor
AfterUpdate(who) == IF who = "player" THEN "enemy_turn" ELSE "loop"

\* player.update() / enemy.update() at the end of the actor's turn; an
\* exception raised by the passive hook is caught by battle()
Update(who) ==
    /\ pc = UpdateOf(who)
    /\ LET res == update(Obj(who))
       IN  /\ StoreSelf(who, res.self)
           /\ last' = [Op(who, "update") EXCEPT !.raised = res.raised]
    /\ pc' = AfterUpdate(who)
    /\ UNCHANGED <<rounds, calls, defeated>>

\* if enemy.health > 0 fails: the enemy neither acts nor updates
EnemyDown ==
    /\ pc = "enemy_turn"
    /\ enemy.health <= 0
    /\ pc' = "loop"
    /\ UNCHANGED <<player, enemy, rounds, calls, last, defeated>>

\* mutant: every ability index is offered, ready or not
ReadySpecials_all(c) == 0 .. Len(Abilities(c.cls)) - 1

\* indices of the abilities that are ready
ReadySpecials(c) ==
    {i \in 0 .. Len(Abilities(c.cls)) - 1 : is_ability_ready(c, AbilityAt(c, i))}

\* ready_specials and random.random() < 0.6, for the sample p
WantsSpecial(c, p) == ReadySpecials(c) # {} /\ p < 600

\* handle_enemy_turn: a special chosen among the ready ones
EnemySpecial ==
    /\ pc = "enemy_turn"
    /\ enemy.health > 0
    /\ ~IsStunned(enemy)
    /\ \E p \in Samples :
          /\ WantsSpecial(enemy, p)
          /\ \E index \in ReadySpecials(enemy) :
             \E r \in RndFor(AbilityAt(enemy, index)) :
                LET res == special(enemy, index, player, r)
                IN  /\ Store("enemy", res)
                    /\ last' = AbilityOp("enemy", "special", AbilityAt(enemy, index),
                                         index, r, res)
    /\ pc' = "enemy_update"
    /\ UNCHANGED <<rounds, calls, defeated>>

\* handle_enemy_turn: a plain attack
EnemyAttack ==
    /\ pc = "enemy_turn"
    /\ enemy.health > 0
    /\ ~IsStunned(enemy)
    /\ \E p \in Samples :
          /\ ~WantsSpecial(enemy, p)
          /\ \E u \in Samples, roll \in RollOffsets :
                /\ Store("enemy", attack(enemy, player, u, roll))
                /\ last' = AttackOp("enemy", u, roll)
    /\ pc' = "enemy_update"
    /\ UNCHANGED <<rounds, calls, defeated>>

Next ==
    \/ LoopEnter
    \/ LoopExit
    \/ \E who \in Actors : StunnedSkip(who)
    \/ PlayerAttack
    \/ \E index \in IndexChoices : PlayerSpecialRefused(index)
    \/ \E index \in IndexChoices : PlayerSpecial(index)
    \/ PlayerHeal
    \/ PlayerQuit
    \/ \E who \in Actors : Update(who)
    \/ EnemyDown
    \/ EnemySpecial
    \/ EnemyAttack

Spec == Init /\ [][Next]_vars

----------------------------------------------------------------------------
(* A client that calls the methods of the two objects directly, as the     *)
(* unit tests do: an EvilWizard and a DummyPlayer or a player class, each   *)
(* call made by one object with the other one as its opponent / target.    *)

UnitPlayers == {DummyPlayer, Warrior, Mage, Archer, Assassin}

InitUnit ==
    /\ player \in UnitPlayers
    /\ enemy = EvilWizard
    /\ pc = "unit"
    /\ rounds = 0
    /\ calls = 0
    /\ last = NoOp
    /\ defeated = "none"

Called ==
    /\ pc = "unit"
    /\ calls < MaxCalls
    /\ calls' = calls + 1
    /\ UNCHANGED <<pc, rounds, defeated>>

\* who.attack(other)
CallAttack(who) ==
    /\ Called
    /\ \E u \in Samples, roll \in RollOffsets :
          /\ Store(who, attack(Obj(who), Obj(Other(who)), u, roll))
          /\ last' = AttackOp(who, u, roll)

\* who.heal()
CallHeal(who) ==
    /\ Called
    /\ StoreSelf(who, heal(Obj(who)))
    /\ last' = Op(who, "heal")

\* who.update(); an exception reaches the client
CallUpdate(who) ==
    /\ Called
    /\ LET res == update(Obj(who))
       IN  /\ StoreSelf(who, res.self)
           /\ last' = [Op(who, "update") EXCEPT !.raised = res.raised]

\* who.display_stats()
CallDisplayStats(who) ==
    /\ Called
    /\ \E roll \in RollOffsets : StoreSelf(who, display_stats(Obj(who), roll))
    /\ last' = Op(who, "display_stats")

\* who.use_ability(name)
CallUseAbility(who) ==
    /\ Called
    /\ \E name \in AbilityNames(Obj(who).cls) :
          LET used == use_ability(Obj(who), name)
          IN  /\ StoreSelf(who, used.self)
              /\ last' = [Op(who, "use_ability") EXCEPT !.ability = name, !.ok = used.ok]

\* who.special(index, other), any index
CallSpecial(who) ==
    /\ Called
    /\ \E index \in IndexChoices :
          LET c       == Obj(who)
              ability == IF ValidIndex(c, index) THEN AbilityAt(c, index) ELSE ""
              gate    == ValidIndex(c, index) /\ is_ability_ready(c, ability)
          IN  \E r \in RndFor(ability) :
                 LET res == special(c, index, Obj(Other(who)), r)
                 IN  /\ Store(who, res)
                     /\ last' = IF gate
                                THEN AbilityOp(who, "special", ability, index, r, res)
                                ELSE [Op(who, "special") EXCEPT
                                        !.ability = ability, !.index = index]

\* who.<ability>(other): the ability method itself, as the tests call it
CallAbility(who) ==
    /\ Called
    /\ \E ability \in AbilityNames(Obj(who).cls) :
       \E r \in RndFor(ability) :
          LET res == Invoke(Obj(who), ability, Obj(Other(who)), r)
          IN  /\ Store(who, res)
              /\ last' = AbilityOp(who, "method", ability, 0, r, res)

\* enemy.regenerate()
CallRegenerate ==
    /\ Called
    /\ enemy' = regenerate(enemy)
    /\ last' = Op("enemy", "regenerate")
    /\ UNCHANGED player

NextUnit ==
    \/ \E who \in Actors : CallAttack(who)
    \/ \E who \in Actors : CallHeal(who)
    \/ \E who \in Actors : CallUpdate(who)
    \/ \E who \in Actors : CallDisplayStats(who)
    \/ \E who \in Actors : CallUseAbility(who)
    \/ \E who \in Actors : CallSpecial(who)
    \/ \E who \in Actors : CallAbility(who)
    \/ CallRegenerate

SpecUnit == InitUnit /\ [][NextUnit]_vars

----------------------------------------------------------------------------
(* battle() with a player who heals on every turn.  The loop of battle()   *)
(* counts no rounds and has no cap on them, so the rounds are not counted  *)
(* here; the program is sequential and runs its next statement whenever it *)
(* has one, which is weak fairness of the step relation.                   *)

InitHeal ==
    /\ \E choice \in PlayerClasses : player = create_character(choice)
    /\ enemy = EvilWizard
    /\ pc = "loop"
    /\ rounds = 0
    /\ calls = 0
    /\ last = NoOp
    /\ defeated = "none"

\* while player.health > 0 and enemy.health > 0: enter the next round
LoopAgain ==
    /\ pc = "loop"
    /\ Fighting
    /\ pc' = "player_turn"
    /\ UNCHANGED <<player, enemy, rounds, calls, last, defeated>>

NextHeal ==
    \/ LoopAgain
    \/ LoopExit
    \/ PlayerHeal
    \/ \E who \in Actors : Update(who)
    \/ EnemySpecial
    \/ EnemyAttack

SpecHeal == InitHeal /\ [][NextHeal]_vars /\ WF_vars(NextHeal)

----------------------------------------------------------------------------
(* A client that calls update() several times in a row on an object whose  *)
(* abilities are on cooldown.  Every vector of cooldowns between 0 and the *)
(* configured values is reached by direct calls: use_ability on each       *)
(* ability, in the order of the decay wanted, with update() in between.    *)

MaxUpdates == 6

\* c with every vector of cooldowns from 0 to the configured values
OnCooldown(c) ==
    {[c EXCEPT !.cooldowns = cd] :
        cd \in {f \in [AbilityNames(c.cls) -> 0 .. 5] :
                   \A n \in AbilityNames(c.cls) : f[n] <= CooldownOf(n)}}

RECURSIVE Updates(_, _)
\* update() called n times in a row; raised if one of the calls raised
Updates(c, n) ==
    IF n = 0 THEN [self |-> c, raised |-> FALSE]
    ELSE LET first == update(c)
             rest  == Updates(first.self, n - 1)
         IN  [self |-> rest.self, raised |-> first.raised \/ rest.raised]

InitDecay ==
    /\ \/ \E p \in UnitPlayers : player \in OnCooldown(p) /\ enemy = EvilWizard
       \/ player = DummyPlayer /\ enemy \in OnCooldown(EvilWizard)
    /\ pc = "unit"
    /\ rounds = 0
    /\ calls = 0
    /\ last = NoOp
    /\ defeated = "none"

\* who.update(), n times in a row
CallUpdates(who) ==
    /\ Called
    /\ \E n \in 0 .. MaxUpdates :
          LET res == Updates(Obj(who), n)
          IN  /\ StoreSelf(who, res.self)
              /\ last' = [Op(who, "updates") EXCEPT !.index = n, !.raised = res.raised]

NextDecay == \E who \in Actors : CallUpdates(who)

SpecDecay == InitDecay /\ [][NextDecay]_vars

----------------------------------------------------------------------------
(* A client that reads the effective stats and calls update() on objects   *)
(* whose status slots hold what the abilities write, at every stage of     *)
(* their decay: weakened (10, 4) from curse, evade_boost (0.5, 3) from     *)
(* shadow_veil, slowed (evasion / 2, 4) from Ice Shard, stunned 1 from     *)
(* shield_bash.  The Warrior is also taken with the slots berserker_rage   *)
(* names for its rage, (10, -1) and (5, -1); no call of this code writes   *)
(* them (apply_status is not defined), a client writes them to the         *)
(* status_effects dict directly, as the tests write attack_power and       *)
(* cooldowns.                                                              *)

\* a slot as written with (value, duration), and after each update() since
Decays(value, duration) == {<<0, 0>>} \cup {<<value, d>> : d \in 0 .. duration}

Cursed(c) == {SetSlot(c, "weakened", w) : w \in Decays(10, 4)}

Raged ==
    [Warrior EXCEPT !.health = 40, !.raging = TRUE,
                    !.status_effects.empowered = <<10, -1>>,
                    !.status_effects.shielded = <<5, -1>>]

Veiled ==
    {[EvilWizard EXCEPT !.status_effects.evade_boost = e,
                        !.status_effects.slowed = sl,
                        !.status_effects.stunned = st] :
        e \in Decays(500, 3), sl \in Decays(125, 4), st \in 0 .. 1}

InitStatus ==
    /\ \/ /\ \E p \in UnitPlayers : player \in Cursed(p) \cup Cursed(Raged)
          /\ enemy = EvilWizard
       \/ /\ player = DummyPlayer
          /\ enemy \in Veiled
    /\ pc = "unit"
    /\ rounds = 0
    /\ calls = 0
    /\ last = NoOp
    /\ defeated = "none"

\* who.get_effective_attack(): draws and caches the roll if none is cached
CallEffectiveAttack(who) ==
    /\ Called
    /\ \E roll \in RollOffsets :
          /\ StoreSelf(who, [Obj(who) EXCEPT
                                !.cached_attack_roll = AttackRoll(Obj(who), roll)])
          /\ last' = [Op(who, "get_effective_attack") EXCEPT
                        !.value = get_effective_attack(Obj(who), roll)]

\* who.get_effective_defense()
CallEffectiveDefense(who) ==
    /\ Called
    /\ last' = [Op(who, "get_effective_defense") EXCEPT
                  !.value = get_effective_defense(Obj(who))]
    /\ UNCHANGED <<player, enemy>>

\* who.get_effective_evasion()
CallEffectiveEvasion(who) ==
    /\ Called
    /\ last' = [Op(who, "get_effective_evasion") EXCEPT
                  !.value = get_effective_evasion(Obj(who))]
    /\ UNCHANGED <<player, enemy>>

NextStatus ==
    \/ \E who \in Actors : CallUpdate(who)
    \/ \E who \in Actors : CallEffectiveAttack(who)
    \/ \E who \in Actors : CallEffectiveDefense(who)
    \/ \E who \in Actors : CallEffectiveEvasion(who)

SpecStatus == InitStatus /\ [][NextStatus]_vars

----------------------------------------------------------------------------
(* A client that calls Archer.multi_shot on an EvilWizard: a fresh one,    *)
(* one under its shadow_veil, and one whose evasion_chance the client has  *)
(* set to 1.0 (no call of this code takes an effective evasion to 1.0, a   *)
(* client writes the attribute, as the tests write attack_power).          *)

ShotTargets ==
    {EvilWizard,
     SetSlot(EvilWizard, "evade_boost", <<500, 3>>),
     [EvilWizard EXCEPT !.evasion_chance = 1000]}

InitShot ==
    /\ player = Archer
    /\ enemy \in ShotTargets
    /\ pc = "unit"
    /\ rounds = 0
    /\ calls = 0
    /\ last = NoOp
    /\ defeated = "none"

\* player.multi_shot(enemy)
CallMultiShot ==
    /\ Called
    /\ \E r \in RndFor("multi_shot") :
          LET res == Invoke(player, "multi_shot", enemy, r)
          IN  /\ Store("player", res)
              /\ last' = [AbilityOp("player", "method", "multi_shot", 0, r, res)
                            EXCEPT !.hits = r.hits, !.us = r.us]

NextShot == CallMultiShot

SpecShot == InitShot /\ [][NextShot]_vars

----------------------------------------------------------------------------
(* battle() from the head of the round after the one in which the wizard's *)
(* curse landed on a fresh player (the player had healed at full health;   *)
(* the wizard's update() took the cooldown of curse from 5 to 4), for the  *)
(* player's next turns: `rounds` is the number of the player's turn since  *)
(* the curse.  The player heals on every turn; the curse is not ready      *)
(* again before the wizard's turn of the fifth round, and no player who    *)
(* heals falls within these rounds, so the loop is not left.               *)

MaxCurseRounds == 5

InitCurse ==
    /\ \E choice \in PlayerClasses :
          player = SetSlot(create_character(choice), "weakened", <<10, 4>>)
    /\ enemy = [EvilWizard EXCEPT !.cooldowns["curse"] = 4]
    /\ pc = "loop"
    /\ rounds = 0
    /\ calls = 0
    /\ last = NoOp
    /\ defeated = "none"

\* while player.health > 0 and enemy.health > 0: enter the next round
LoopEnterCurse ==
    /\ pc = "loop"
    /\ Fighting
    /\ rounds < MaxCurseRounds
    /\ pc' = "player_turn"
    /\ rounds' = rounds + 1
    /\ UNCHANGED <<player, enemy, calls, last, defeated>>

NextCurse ==
    \/ LoopEnterCurse
    \/ PlayerHeal
    \/ \E who \in Actors : Update(who)
    \/ EnemySpecial
    \/ EnemyAttack

SpecCurse == InitCurse /\ [][NextCurse]_vars

----------------------------------------------------------------------------
(* Properties *)

\* the objects after the step
ObjNext(who) == IF who = "player" THEN player' ELSE enemy'

\* the operations that are an actor's action of a turn
ActionOps == {"attack", "special", "heal"}

\* C1: in battle(), whenever an actor resolves an action (attack, ability by
\* index or heal), the next thing battle() does is that actor's update(),
\* before the other actor's turn.
C1_UpdateFollowsAction ==
    [][\A who \in Actors :
          (pc = TurnOf(who) /\ last'.actor = who /\ last'.op \in ActionOps)
             => pc' = UpdateOf(who)]_vars

\* C2: an actor whose stunned slot is > 0 at the start of its turn resolves
\* no action (neither object changes), and its update() still runs next: it
\* takes the stun down by one.
C2_StunnedSkipsAction ==
    [][\A who \in Actors :
          /\ (pc = TurnOf(who) /\ Obj(who).health > 0
                /\ Obj(who).status_effects.stunned > 0)
                => (pc' = UpdateOf(who) /\ UNCHANGED <<player, enemy>>)
          /\ (pc = UpdateOf(who) /\ last.op = "stunned")
                => /\ last' = [Op(who, "update") EXCEPT !.raised = last'.raised]
                   /\ ObjNext(who).status_effects.stunned
                         = Obj(who).status_effects.stunned - 1
                   /\ ObjNext(Other(who)) = Obj(Other(who))]_vars

\* C2 witness: a stunned enemy has skipped its action and awaits its update()
C2_Witness ==
    /\ pc = "enemy_update"
    /\ last = Op("enemy", "stunned")
    /\ enemy.status_effects.stunned > 0

\* C3: when the player chooses quit, battle() returns at once: nothing of
\* either combatant changes in that step or after it, no further step of the
\* battle is taken, and nobody is reported as defeated.
C3_QuitEndsBattle ==
    [][/\ pc # "quit"
       /\ (pc = "player_turn" /\ last'.op = "quit")
             => /\ pc' = "quit"
                /\ UNCHANGED <<player, enemy, defeated>>
                /\ defeated = "none"]_vars

\* C3 witness: the battle was left by quit with both combatants alive
C3_Witness ==
    /\ pc = "quit"
    /\ last = Op("player", "quit")
    /\ player.health > 0
    /\ enemy.health > 0
    /\ rounds = MaxRounds

\* C4: every battle ends with a winner: the round loop of battle() is left
\* with one combatant at health <= 0, whatever the choices and the random
\* outcomes are.
C4_BattleTerminates == <>(pc = "over")

\* the object of `who` with the cooldown of one ability set to its configured
\* value
WithCooldown(who, name) ==
    [Obj(who) EXCEPT !.cooldowns = [Obj(who).cooldowns EXCEPT ![name] = CooldownOf(name)]]

\* C5: use_ability(name) on a ready ability sets that cooldown to the
\* configured value, returns True and changes nothing else; on an ability
\* whose cooldown is > 0 it returns False and changes nothing of either
\* combatant, and special(index, target) on such an ability runs no behaviour:
\* both combatants are as before.
C5_UseAbilityFrame ==
    [][\A who \in Actors :
          /\ (last'.actor = who /\ last'.op = "use_ability")
                => IF Obj(who).cooldowns[last'.ability] = 0
                   THEN /\ last'.ok
                        /\ ObjNext(who) = WithCooldown(who, last'.ability)
                        /\ ObjNext(Other(who)) = Obj(Other(who))
                   ELSE /\ ~last'.ok
                        /\ UNCHANGED <<player, enemy>>
          /\ (last'.actor = who /\ last'.op = "special" /\ last'.ability # "")
                => IF Obj(who).cooldowns[last'.ability] > 0
                   THEN ~last'.ok /\ UNCHANGED <<player, enemy>>
                   ELSE /\ last'.ok
                        /\ ObjNext(who).cooldowns[last'.ability]
                              = CooldownOf(last'.ability)]_vars

\* C5 witness: use_ability was called on an ability on cooldown and
\* returned False
C5_Witness ==
    /\ pc = "unit"
    /\ last.op = "use_ability"
    /\ ~last.ok
    /\ Obj(last.actor).cooldowns[last.ability] > 0

\* C6: EvilWizard.dark_bolt(target) called while cooldowns['dark_bolt'] > 0
\* leaves the target's health unchanged.
C6_DarkBoltOnCooldown ==
    [][(/\ last'.actor = "enemy"
        /\ last'.op = "method"
        /\ last'.ability = "dark_bolt"
        /\ enemy.cooldowns["dark_bolt"] > 0)
          => player'.health = player.health]_vars

\* C7: a non-stunned enemy turn resolves exactly one action and then goes to
\* the enemy's update(): a plain attack, which leaves the cooldowns alone, or
\* one ability whose cooldown was 0 at the start of the turn and is its
\* configured value afterwards, the other cooldowns untouched; when no
\* ability is ready the action is a plain attack.
C7_EnemyTurnOneAction ==
    [][(pc = "enemy_turn" /\ enemy.health > 0 /\ enemy.status_effects.stunned = 0)
          => /\ pc' = "enemy_update"
             /\ last'.actor = "enemy"
             /\ \/ /\ last'.op = "attack"
                   /\ enemy'.cooldowns = enemy.cooldowns
                \/ /\ last'.op = "special"
                   /\ last'.ability \in DOMAIN enemy.cooldowns
                   /\ enemy.cooldowns[last'.ability] = 0
                   /\ enemy'.cooldowns =
                         [enemy.cooldowns EXCEPT
                            ![last'.ability] = CooldownOf(last'.ability)]
             /\ (\A n \in DOMAIN enemy.cooldowns : enemy.cooldowns[n] > 0)
                   => last'.op = "attack"]_vars

\* C7 witness: the enemy attacked on a turn on which none of its abilities
\* was ready
C7_Witness ==
    /\ pc = "enemy_update"
    /\ last.actor = "enemy"
    /\ last.op = "attack"
    /\ \A n \in DOMAIN enemy.cooldowns : enemy.cooldowns[n] > 0

\* the selection the step made is out of range or names an ability on cooldown
Rejected(c, index) ==
    \/ index < 0
    \/ index >= Len(Abilities(c.cls))
    \/ c.cooldowns[Abilities(c.cls)[index + 1]] > 0

\* C8: in the player's turn, the selection of an ability index out of range
\* or of an ability on cooldown changes nothing of either combatant and does
\* not consume the turn: battle() is still at the player's turn, so neither
\* player.update() nor the enemy's turn has run.
C8_RejectedSelection ==
    [][(/\ pc = "player_turn"
        /\ last'.actor = "player"
        /\ last'.op \in {"refused", "special"}
        /\ Rejected(player, last'.index))
          => UNCHANGED <<player, enemy, pc, rounds, defeated>>]_vars

\* C8 witness: the player selected an ability on cooldown and is asked again
C8_Witness ==
    /\ pc = "player_turn"
    /\ last.actor = "player"
    /\ last.op = "refused"
    /\ last.index \in 0 .. Len(Abilities(player.cls)) - 1
    /\ player.cooldowns[Abilities(player.cls)[last.index + 1]] > 0

\* C9: no ready ability invoked through special(index, target) and no
\* update() ends by raising an exception.
C9_NeverRaises == ~last.raised

\* effective attack of c for the roll the attack used, and effective defense
EffAttack(c, roll) ==
    Max(1, roll
           + (IF c.status_effects.empowered[2] > 0 THEN c.status_effects.empowered[1] ELSE 0)
           - (IF c.status_effects.weakened[2] > 0 THEN c.status_effects.weakened[1] ELSE 0))

EffDefense(c) ==
    Max(0, c.defense
           + (IF c.status_effects.shielded[2] > 0 THEN c.status_effects.shielded[1] ELSE 0)
           - (IF c.status_effects.vulnerable[2] > 0 THEN c.status_effects.vulnerable[1] ELSE 0))

\* the health, status effects and cooldowns of `who` are as before the step
SameCombatant(who) ==
    /\ ObjNext(who).health = Obj(who).health
    /\ ObjNext(who).status_effects = Obj(who).status_effects
    /\ ObjNext(who).cooldowns = Obj(who).cooldowns

\* C10: attack(target): if the target evades, the health, status effects and
\* cooldowns of both combatants are unchanged; otherwise the target loses
\* exactly max(1, effective attack - effective defense) health, which is at
\* least 1, and nothing else of either combatant changes.
C10_AttackDamage ==
    [][\A who \in Actors :
          (pc = TurnOf(who) /\ last'.actor = who /\ last'.op = "attack")
             => /\ SameCombatant(who)
                /\ IF last'.evaded
                   THEN ObjNext(Other(who)) = Obj(Other(who))
                   ELSE /\ ObjNext(Other(who)) =
                             [Obj(Other(who)) EXCEPT
                                !.health = @ - Max(1, EffAttack(Obj(who), last'.roll)
                                                      - EffDefense(Obj(Other(who))))]
                        /\ ObjNext(Other(who)).health < Obj(Other(who)).health]_vars

\* C10 witness: the wizard's attack landed on the Warrior with the lowest
\* roll, 15 against a defense of 15, and took the floor of 1 health
C10_Witness ==
    /\ pc = "enemy_update"
    /\ last.actor = "enemy"
    /\ last.op = "attack"
    /\ ~last.evaded
    /\ last.roll = 15
    /\ player.cls = "Warrior"
    /\ player.health = 139

\* C11: in every reachable state of a battle the health of each combatant is
\* at most its max_health.
C11_HealthAtMostMax ==
    /\ player.health <= player.max_health
    /\ enemy.health <= enemy.max_health

\* C11 witness: a drain_life of the wizard landed while the wizard was within
\* 10 of its max_health, and the wizard stands at max_health
C11_Witness ==
    /\ pc = "enemy_update"
    /\ last.actor = "enemy"
    /\ last.ability = "drain_life"
    /\ ~last.evaded
    /\ enemy.health = enemy.max_health

\* the health heal() leaves: ten more, capped, or the same at full health
Healed(c) ==
    IF c.health < c.max_health
    THEN (IF c.health + 10 < c.max_health THEN c.health + 10 ELSE c.max_health)
    ELSE c.health

\* C12: the heal action of the player's turn takes the player's health to
\* min(max_health, health + 10), or leaves it at max_health, changes nothing
\* else, and consumes the turn either way: player.update() is the next step,
\* and the enemy's turn follows it.
C12_HealConsumesTurn ==
    [][/\ (pc = "player_turn" /\ last'.actor = "player" /\ last'.op = "heal")
             => /\ player' = [player EXCEPT !.health = Healed(player)]
                /\ enemy' = enemy
                /\ pc' = "player_update"
       /\ (pc = "player_update" /\ last.op = "heal")
             => /\ last'.actor = "player"
                /\ last'.op = "update"
                /\ pc' = "enemy_turn"]_vars

\* C12 witness: the player healed at full health on the first turn and
\* awaits its update()
C12_Witness ==
    /\ pc = "player_update"
    /\ last = Op("player", "heal")
    /\ rounds = 1
    /\ player.health = player.max_health

\* C13: each combatant has one cooldown entry per ability name and no other,
\* all 0 at construction, and every cooldown is an integer from 0 to the
\* configured cooldown of its ability.
C13_CooldownEntries ==
    \A who \in Actors :
       /\ DOMAIN Obj(who).cooldowns = AbilityNames(Obj(who).cls)
       /\ \A n \in DOMAIN Obj(who).cooldowns :
             /\ Obj(who).cooldowns[n] \in 0 .. CooldownOf(n)
             /\ calls = 0 => Obj(who).cooldowns[n] = 0

\* C13 witness: a cooldown of the wizard was set by an activation and taken
\* down by one update()
C13_Witness ==
    /\ pc = "unit"
    /\ last = Op("enemy", "update")
    /\ \E n \in DOMAIN enemy.cooldowns :
          enemy.cooldowns[n] > 0 /\ enemy.cooldowns[n] = CooldownOf(n) - 1

\* C14: N update() calls in a row, with no activation in between, take a
\* cooldown C to C - N when N <= C and to 0 when N > C; it is never negative.
C14_CooldownDecay ==
    [][\A who \in Actors :
          (last'.actor = who /\ last'.op = "updates")
             => \A n \in DOMAIN Obj(who).cooldowns :
                   /\ ObjNext(who).cooldowns[n] =
                         (IF last'.index <= Obj(who).cooldowns[n]
                          THEN Obj(who).cooldowns[n] - last'.index
                          ELSE 0)
                   /\ ObjNext(who).cooldowns[n] >= 0]_vars

\* C14 witness: two update() calls took curse from 5 to 3 and dark_bolt from
\* 1 to 0
C14_Witness ==
    /\ calls = 1
    /\ last = [Op("enemy", "updates") EXCEPT !.index = 2]
    /\ enemy.cooldowns["curse"] = 3
    /\ enemy.cooldowns["dark_bolt"] = 0
    /\ enemy.cooldowns["drain_life"] = 1

\* every magnitude slot of c has 0 turns remaining
AllInactive(c) == \A k \in Slots : c.status_effects[k][2] = 0

\* C15: with every magnitude slot inactive, the effective attack is the base
\* attack exactly, the effective defense the base defense exactly, and the
\* effective evasion the base evasion exactly.
C15_InactiveEqualsBase ==
    [][\A who \in Actors :
          (last'.actor = who /\ AllInactive(Obj(who)))
             => /\ last'.op = "get_effective_attack"
                      => last'.value = Obj(who).attack_power
                /\ last'.op = "get_effective_defense"
                      => last'.value = Obj(who).defense
                /\ last'.op = "get_effective_evasion"
                      => last'.value = Obj(who).evasion_chance]_vars

\* C15, as the code has it: with every magnitude slot inactive, the
\* effective attack is the attack roll exactly: the cached roll if there is
\* one, else a fresh roll from attack_power to attack_power + 5, which the
\* call caches; the effective defense is the base defense exactly and the
\* effective evasion the base evasion exactly.
C15_InactiveEqualsRoll ==
    [][\A who \in Actors :
          (last'.actor = who /\ AllInactive(Obj(who)))
             => /\ last'.op = "get_effective_attack"
                      => /\ last'.value \in Obj(who).attack_power
                                            .. Obj(who).attack_power + 5
                         /\ Obj(who).cached_attack_roll # None
                               => last'.value = Obj(who).cached_attack_roll
                         /\ ObjNext(who).cached_attack_roll = last'.value
                /\ last'.op = "get_effective_defense"
                      => last'.value = Obj(who).defense
                /\ last'.op = "get_effective_evasion"
                      => last'.value = Obj(who).evasion_chance]_vars

\* C15 witness: get_effective_attack, called on the Mage with every slot
\* inactive and no roll cached, returned 33 for an attack_power of 30
C15_Witness ==
    /\ calls = 1
    /\ last = [Op("player", "get_effective_attack") EXCEPT !.value = 33]
    /\ player.cls = "Mage"
    /\ player.attack_power = 30
    /\ AllInactive(player)

\* C16: update() takes every status slot with turns remaining > 0 down by
\* exactly 1 and leaves its magnitude alone, leaves a slot at 0 as it is,
\* takes no turns remaining below 0, and leaves a slot at the sentinel -1 as
\* it is.
C16_StatusDecay ==
    [][\A who \in Actors :
          (last'.actor = who /\ last'.op = "update")
             => /\ \A k \in Slots :
                      LET v == Obj(who).status_effects[k]
                          w == ObjNext(who).status_effects[k]
                      IN  /\ v[2] > 0 => w = <<v[1], v[2] - 1>>
                          /\ v[2] = 0 => w = v
                          /\ v[2] = -1 => w = v
                          /\ w[2] >= 0 \/ w[2] = v[2]
                /\ LET st == Obj(who).status_effects.stunned
                       nx == ObjNext(who).status_effects.stunned
                   IN  /\ st > 0 => nx = st - 1
                       /\ st = 0 => nx = 0
                       /\ nx >= 0]_vars

\* C16 witness: one update() took the player's weakened slot from (10, 4) to
\* (10, 3)
C16_Witness ==
    /\ calls = 1
    /\ last = Op("player", "update")
    /\ player.status_effects.weakened = <<10, 3>>
    /\ player.status_effects.empowered = <<0, 0>>

\* C17: when a Warrior's update() runs with health / max_health < 0.30,
\* empowered with magnitude 10 and shielded with magnitude 5 are active after
\* it.
C17_RageBelowThreshold ==
    [][(/\ pc = "player_update"
        /\ last'.actor = "player"
        /\ last'.op = "update"
        /\ player.cls = "Warrior"
        /\ 100 * player.health < 30 * player.max_health)
          => /\ player'.status_effects.empowered[1] = 10
             /\ player'.status_effects.empowered[2] # 0
             /\ player'.status_effects.shielded[1] = 5
             /\ player'.status_effects.shielded[2] # 0]_vars

\* C18: a curse of the wizard that lands takes the target's attack power
\* down by 5, and to 0 if it was below 5.
C18_CurseReducesAttackPower ==
    [][(/\ last'.actor = "enemy"
        /\ last'.op = "method"
        /\ last'.ability = "curse"
        /\ ~last'.evaded)
          => player'.attack_power =
                (IF player.attack_power >= 5 THEN player.attack_power - 5 ELSE 0)]_vars

\* C19: regenerate() takes the wizard's health h to
\* min(h + max_health // 3, max_health).
C19_RegenerateThird ==
    [][(last'.actor = "enemy" /\ last'.op = "regenerate")
          => enemy'.health =
                (IF enemy.health + (enemy.max_health \div 3) <= enemy.max_health
                 THEN enemy.health + (enemy.max_health \div 3)
                 ELSE enemy.max_health)]_vars

\* C20: right after shadow_veil() the wizard's evade_boost slot is (0.5, 2).
C20_ShadowVeilTwoTurns ==
    [][(/\ last'.actor = "enemy"
        /\ last'.op = "method"
        /\ last'.ability = "shadow_veil")
          => enemy'.status_effects.evade_boost = <<500, 2>>]_vars

\* effective evasion of c, in thousandths
EffEvasion(c) ==
    LET e == c.evasion_chance
             + (IF c.status_effects.evade_boost[2] > 0
                THEN c.status_effects.evade_boost[1] ELSE 0)
             - (IF c.status_effects.slowed[2] > 0
                THEN c.status_effects.slowed[1] ELSE 0)
    IN  IF e < 0 THEN 0 ELSE IF e > 1000 THEN 1000 ELSE e

\* the sub-hits of the step's multi_shot that were not evaded
LandedHits(target) ==
    Cardinality({i \in 1 .. last'.hits : ~(last'.us[i] < EffEvasion(target))})

\* C21: multi_shot attempts 3 to 5 sub-hits, each with its own evasion check;
\* the landed ones are at most the attempted ones, the target loses exactly
\* landed * (attack_power // 3) health and nothing else changes, and a target
\* with effective evasion 1.0 loses nothing.
C21_MultiShot ==
    [][(last'.op = "method" /\ last'.ability = "multi_shot")
          => /\ last'.hits \in 3 .. 5
             /\ LandedHits(enemy) <= last'.hits
             /\ enemy' = [enemy EXCEPT
                            !.health = @ - LandedHits(enemy) * (player.attack_power \div 3)]
             /\ player' = player
             /\ EffEvasion(enemy) = 1000 => enemy' = enemy]_vars

\* C21 witness: five sub-hits on a fresh wizard, the first and the fourth
\* evaded, three landed for 3 * 11 health
C21_Witness ==
    /\ calls = 1
    /\ last.ability = "multi_shot"
    /\ last.hits = 5
    /\ last.us = <<0, 999, 999, 0, 999>>
    /\ enemy = [EvilWizard EXCEPT !.health = 150 - 33]

\* C22: after a shadow_step resolved in the Assassin's turn, the target's
\* effective evasion is 0 and the Assassin's empowered slot holds half its
\* attack_power for 2 turns.
C22_ShadowStep ==
    [][(/\ pc = "player_turn"
        /\ last'.actor = "player"
        /\ last'.op = "special"
        /\ last'.ability = "shadow_step")
          => /\ EffEvasion(enemy') = 0
             /\ player'.status_effects.empowered = <<player.attack_power \div 2, 2>>]_vars

\* C23: a shield_bash that lands leaves the target's stunned slot at 1; the
\* target's next turn resolves no action and goes to its update(), which
\* takes the slot back to 0, so every round starts with the slot at 0 and a
\* target that is not stunned at its turn acts.
C23_ShieldBashOneTurn ==
    [][/\ (/\ pc = "player_turn"
           /\ last'.actor = "player"
           /\ last'.op = "special"
           /\ last'.ability = "shield_bash"
           /\ ~last'.evaded)
             => /\ enemy'.status_effects.stunned = 1
                /\ pc' = "player_update"
       /\ (pc = "enemy_turn" /\ enemy.health > 0 /\ enemy.status_effects.stunned > 0)
             => /\ last' = Op("enemy", "stunned")
                /\ pc' = "enemy_update"
                /\ UNCHANGED <<player, enemy>>
       /\ (pc = "enemy_update" /\ last.op = "stunned")
             => /\ enemy'.status_effects.stunned = 0
                /\ pc' = "loop"
       /\ (pc = "enemy_turn" /\ enemy.health > 0 /\ enemy.status_effects.stunned = 0)
             => /\ last'.actor = "enemy"
                /\ last'.op \in {"attack", "special"}
       /\ pc' = "loop" => enemy'.status_effects.stunned = 0]_vars

\* C23 witness: the Warrior's shield_bash landed this round, the wizard has
\* skipped its action and awaits the update() that ends the stun
C23_Witness ==
    /\ pc = "enemy_update"
    /\ last = Op("enemy", "stunned")
    /\ player.cls = "Warrior"
    /\ player.cooldowns["shield_bash"] = 2
    /\ enemy.status_effects.stunned = 1
    /\ rounds = 1

\* C24: after a curse landed on the player, the player's effective attack is
\* reduced by 10 (floored at 1) on the player's next 3 turns and is not
\* reduced on the 4th.
C24_CurseThreeTurns ==
    (pc = "player_turn" /\ rounds <= 4 /\ enemy.cooldowns["curse"] > 0)
       => \A roll \in player.attack_power .. player.attack_power + 5 :
             EffAttack(player, roll) = (IF rounds <= 3
                                        THEN (IF roll - 10 < 1 THEN 1 ELSE roll - 10)
                                        ELSE roll)

\* the object `who` was constructed as
Constructed(who) ==
    IF who = "player" THEN create_character(player.cls) ELSE EvilWizard

C27_OneDefeated ==
    [][/\ ~(player.health <= 0 /\ enemy.health <= 0)
       /\ pc = "player_turn" => (player.health > 0 /\ enemy.health > 0)
       /\ (pc = "enemy_turn" /\ enemy.health <= 0)
             => /\ pc' = "loop"
                /\ UNCHANGED <<player, enemy, last>>
       /\ \A who \in Actors :
             /\ pc = UpdateOf(who) => Obj(who).health > 0
             /\ Obj(who).health <= 0 => ObjNext(who) = Obj(who)
       /\ pc' = "over"
             => /\ (player'.health <= 0) # (enemy'.health <= 0)
                /\ defeated' = (IF player'.health <= 0 THEN "player" ELSE "enemy")]_vars

\* C27 witness: the loop was left with the wizard at health <= 0 and the
\* wizard reported as defeated
C27_Witness ==
    /\ pc = "over"
    /\ defeated = "enemy"
    /\ enemy.health <= 0
    /\ player.health > 0

\* C28: an ability activated through special and evaded by the target
\* leaves the target as it was, sets the actor's cooldown of that ability to
\* its configured value and changes nothing else of the actor, and the turn
\* passes to the actor's update().
C28_EvadedStillConsumes ==
    [][\A who \in Actors :
          (/\ pc = TurnOf(who)
           /\ last'.actor = who
           /\ last'.op = "special"
           /\ last'.evaded)
             => /\ ObjNext(Other(who)) = Obj(Other(who))
                /\ Obj(who).cooldowns[last'.ability] = 0
                /\ ObjNext(who) = WithCooldown(who, last'.ability)
                /\ pc' = UpdateOf(who)]_vars

\* C28 witness: the wizard evaded the Mage's arcane_surge; the surge is on
\* its cooldown of 4 and the wizard is unharmed
C28_Witness ==
    /\ pc = "player_update"
    /\ last.actor = "player"
    /\ last.op = "special"
    /\ last.ability = "arcane_surge"
    /\ last.evaded
    /\ player.cooldowns["arcane_surge"] = 4
    /\ enemy = EvilWizard

====
